---------------------------- MODULE Spec2Model ----------------------------
(***************************************************************************)
(* A model of oprofile's op_bfd (src/pp/op_bfd.cpp): the constructor that  *)
(* opens a binary image, get_symbols() that builds the symbol table, and   *)
(* the queries get_symbol_range(), symbol_index() and get_linenr().        *)
(*                                                                         *)
(* u32 quantities are kept modulo 2^WordBits; WordBits stands for the 32   *)
(* of the program, scaled down so that the wrap-around cases are reached   *)
(* with small numbers.  A bfd_vma is as wide as a u32 or wider: a symbol's  *)
(* vma never comes near either width here and is a plain natural number.   *)
(*                                                                         *)
(* A symbol name is a sequence of one-character strings, so that the       *)
(* tests on name[0] and name[1] are tests on characters.                   *)
(***************************************************************************)
EXTENDS Integers, Sequences, FiniteSets, TLC

\* ------------------------------------------------------------- bounds
WordBits == 6
MaxSyms == 3
MaxNamed == 2
MaxDup == 3
MaxOpenSyms == 1

U32 == 2 ^ WordBits

\* ------------------------------------------------------------- names
N_empty == << >>
N_dotL == <<".", "L">>
N_dotLfoo == <<".", "L", "f">>
N_dot == <<".">>
N_dotM == <<".", "M">>
N_L == <<"L">>
N_gcc2 == <<"g","c","c","2","_","c","o","m","p","i","l","e","d",".">>
N_gcc2nodot == <<"g","c","c","2","_","c","o","m","p","i","l","e","d">>
N_init == <<"_","i","n","i","t">>
N_init2 == <<"_","i","n","i","t","2">>
N_f == <<"f">>
N_g == <<"g">>
N_h == <<"h">>
N_k == <<"k">>

\* op_bfd.cpp:102-108
boring_symbols == <<N_gcc2, N_init>>

nr_boring_symbols == Len(boring_symbols)

\* the prologue search window, op_bfd.cpp:293
max_search_init == 16

\* ------------------------------------------------------------- the image
\* A section: SEC_CODE and SEC_ALLOC flags, vma, filepos, size.
Sect(c, a, v, f, s) == [code |-> c, alloc |-> a, vma |-> v, filepos |-> f, size |-> s]

\* an executable whose second code section lies earlier in the file
LayoutInverted ==
    (".text" :> Sect(TRUE, TRUE, 10, 2, 2)) @@ (".init" :> Sect(TRUE, TRUE, 20, 0, 2))

\* an executable whose sections are in the same order in the file and in memory
LayoutOrdered ==
    (".text" :> Sect(TRUE, TRUE, 10, 1, 2)) @@ (".init" :> Sect(TRUE, TRUE, 20, 3, 1))

\* a relocatable module: every section has vma 0
LayoutModule ==
    (".text" :> Sect(TRUE, TRUE, 0, 0, 2)) @@ (".init" :> Sect(TRUE, TRUE, 0, 2, 2))

\* one code section and one data section
LayoutData ==
    (".text" :> Sect(TRUE, TRUE, 10, 2, 4)) @@ (".data" :> Sect(FALSE, TRUE, 20, 6, 4))

\* no section named .text
LayoutNoText ==
    (".code" :> Sect(TRUE, TRUE, 10, 2, 4)) @@ (".data" :> Sect(FALSE, TRUE, 20, 6, 4))

\* a long code section, a short one, and a code section that is not SEC_ALLOC
LayoutLine ==
    (".text" :> Sect(TRUE, TRUE, 10, 2, 20)) @@ (".init" :> Sect(TRUE, TRUE, 40, 22, 5))
    @@ (".note" :> Sect(TRUE, FALSE, 50, 27, 4))

\* a raw symbol of the image (asymbol): name (NULL when ~named), section, value
RawSym(nm, isnamed, sec, val) ==
    [name |-> nm, named |-> isnamed, section |-> sec, value |-> val]

SeqsUpTo(S, n) == UNION {[1..k -> S] : k \in 0..n}

PosName(i) == IF i = 1 THEN N_f ELSE IF i = 2 THEN N_g ELSE IF i = 3 THEN N_h ELSE N_k

\* symtabs whose symbols differ in section and value; the i-th is named PosName(i)
GeomSymtabs ==
    {[i \in DOMAIN s |-> RawSym(PosName(i), TRUE, s[i][1], s[i][2])] :
        s \in SeqsUpTo({".text", ".init"} \X {0, 1}, MaxSyms)}

FilterNames ==
    {N_empty, N_dotL, N_dotLfoo, N_dot, N_dotM, N_L, N_gcc2, N_gcc2nodot,
     N_init, N_init2, N_f}

\* symtabs whose symbols differ in name and section flags; the i-th has value i
FilterSymtabs ==
    {[i \in DOMAIN s |-> RawSym(s[i][1], s[i][2], s[i][3], i)] :
        s \in SeqsUpTo((FilterNames \X {TRUE} \X {".text", ".data"})
                       \cup {<<N_empty, FALSE, ".text">>}, MaxNamed)}

\* symtabs whose symbols share names and addresses
DupSymtabs ==
    SeqsUpTo({RawSym(n, TRUE, ".text", v) : n \in {N_f, N_g}, v \in {0, 1}}, MaxDup)

\* the image file as the constructor finds it
Image(nonempty, opens, fmt, fsz, mt, hs, st, secs) ==
    [named |-> nonempty, openable |-> opens, format_ok |-> fmt, fsize |-> fsz,
     mtime |-> mt, has_syms |-> hs, symtab |-> st, sections |-> secs]

\* the first header of the sample file
Header(k, mt) == [is_kernel |-> k, mtime |-> mt]

VARIABLES
    img,          \* the image file
    hdr,          \* samples.first_header()
    excluded,     \* the session's excluded symbol names
    pc,           \* where the object is: "new", "mtime", "handback", "ready", "exit", "crash"
    err,          \* the fatal error the process exited with
    nr_samples,   \* op_bfd::nr_samples
    sect_offset,  \* op_bfd::sect_offset
    bfd_syms,     \* op_bfd::bfd_syms
    syms,         \* op_bfd::syms
    warned,       \* the mtime warning was printed
    samples_sect_offset, \* what samples.set_sect_offset() received, -1 before
    range,        \* the last get_symbol_range() call
    found,        \* the last symbol_index() call
    ln            \* the get_linenr() call in progress or last finished

vars == <<img, hdr, excluded, pc, err, nr_samples, sect_offset, bfd_syms, syms,
          warned, samples_sect_offset, range, found, ln>>

world == <<img, hdr, excluded>>

NoRange == [called |-> FALSE, idx |-> 0, start |-> 0, end |-> 0, outcome |-> "none"]

NoFound == [called |-> FALSE, name |-> << >>, index |-> 0]

\* a char const *: NULL, or a string
NullPtr == [null |-> TRUE, str |-> << >>]

Str(s) == [null |-> FALSE, str |-> s]

NoAnswer == [ret |-> FALSE, filename |-> NullPtr, functionname |-> NullPtr, linenr |-> 0]

NoLine ==
    [phase |-> "idle", sym_idx |-> 0, offset |-> 0, pc |-> 0, max_search |-> 0, i |-> 0,
     ret |-> FALSE, filename |-> NullPtr, functionname |-> NullPtr, linenr |-> 0,
     first |-> NoAnswer, lookups |-> 0, nprobes |-> 0, last_probe |-> 0,
     last_ret |-> FALSE, accepted_at |-> 0, returned |-> FALSE]

nil_symbol_index == -1


\* ------------------------------------------------------------- get_symbols
\* a comparator that is not strict
symcomp_not_strict(a, b) == a.vma <= b.vma

\* op_bfd.cpp:93-96
symcomp(a, b) == a.vma < b.vma

\* a filter that drops every name that begins with a dot
interesting_symbol_any_dot(sym, sections) ==
    /\ sections[sym.section].code
    /\ sym.named /\ Len(sym.name) > 0
    /\ ~(sym.name[1] = ".")
    /\ \A i \in 1..Len(<<N_gcc2, N_init>>) : <<N_gcc2, N_init>>[i] # sym.name

\* op_bfd.cpp:113-131; the name tests read name[0] and name[1] of a C string
interesting_symbol(sym, sections) ==
    /\ sections[sym.section].code
    /\ sym.named /\ Len(sym.name) > 0
    /\ ~(Len(sym.name) >= 2 /\ sym.name[1] = "." /\ sym.name[2] = "L")
    /\ \A i \in 1..nr_boring_symbols : boring_symbols[i] # sym.name

\* the session's exclusion list: exact match of the name
is_excluded_symbol(name, excl) == name \in excl

\* bfd_get_symtab_upper_bound(): room for the symbols and a terminating NULL
bfd_get_symtab_upper_bound(image) ==
    IF Len(image.symtab) = 0 THEN 0 ELSE Len(image.symtab) + 1

\* bfd_canonicalize_symtab(): the number of symbols
bfd_canonicalize_symtab(image) == Len(image.symtab)

\* op_bfd.cpp:166-175: one op_bfd_symbol {symbol, vma, 0} per interesting symbol,
\* in extraction order; symbol is the index into bfd_syms
RECURSIVE Candidates(_, _, _)
Candidates(bs, sections, i) ==
    IF i > Len(bs) THEN << >>
    ELSE (IF interesting_symbol(bs[i], sections)
          THEN <<[symbol |-> i,
                  vma |-> bs[i].value + sections[bs[i].section].vma,
                  size |-> 0]>>
          ELSE << >>) \o Candidates(bs, sections, i + 1)

\* x goes before the first element that compares greater: equal elements keep
\* their order
RECURSIVE InsertSorted(_, _)
InsertSorted(s, x) ==
    IF s = << >> THEN <<x>>
    ELSE IF symcomp(x, Head(s)) THEN <<x>> \o s
    ELSE <<Head(s)>> \o InsertSorted(Tail(s), x)

\* op_bfd.cpp:177: std::stable_sort(syms.begin(), syms.end(), symcomp)
RECURSIVE stable_sort(_)
stable_sort(s) ==
    IF s = << >> THEN << >>
    ELSE InsertSorted(stable_sort(SubSeq(s, 1, Len(s) - 1)), s[Len(s)])

\* op_bfd.cpp:357 and 363-365: u32 = filepos + value
FileStart(sym, sections) == (sections[sym.section].filepos + sym.value) % U32

\* op_bfd.cpp:350-389 (USE_ELF_INTERNAL is not defined): u32 end - u32 start
symbol_size(tab, sym_idx, bs, sections, nrs) ==
    LET start == FileStart(bs[tab[sym_idx].symbol], sections)
        end == IF sym_idx = Len(tab) THEN nrs
               ELSE FileStart(bs[tab[sym_idx + 1].symbol], sections)
    IN  (end - start) % U32

\* op_bfd.cpp:180-182
FillSizes(tab, bs, sections, nrs) ==
    [i \in 1..Len(tab) |-> [tab[i] EXCEPT !.size = symbol_size(tab, i, bs, sections, nrs)]]

\* vector::erase of one element
Erase(s, i) == SubSeq(s, 1, i - 1) \o SubSeq(s, i + 1, Len(s))

\* a dedup loop that goes on to the next position after an erase
RECURSIVE DedupNoRecheck(_, _)
DedupNoRecheck(s, i) ==
    IF i > Len(s) THEN s
    ELSE IF s[i].vma = s[i - 1].vma THEN DedupNoRecheck(Erase(s, i), i + 1)
    ELSE DedupNoRecheck(s, i + 1)

\* op_bfd.cpp:188-196, from position i (the second element at first): after an
\* erase the same position is looked at again (i--, then ++i)
RECURSIVE Dedup(_, _)
Dedup(s, i) ==
    IF i > Len(s) THEN s
    ELSE IF s[i].vma = s[i - 1].vma THEN Dedup(Erase(s, i), i)
    ELSE Dedup(s, i + 1)

\* op_bfd.cpp:201-208
RECURSIVE RemoveExcluded(_, _, _, _)
RemoveExcluded(s, i, bs, excl) ==
    IF i > Len(s) THEN s
    ELSE IF is_excluded_symbol(bs[s[i].symbol].name, excl)
         THEN RemoveExcluded(Erase(s, i), i, bs, excl)
    ELSE RemoveExcluded(s, i + 1, bs, excl)

\* op_bfd.cpp:145-216: the table syms is left with
get_symbols(image, nrs, excl) ==
    IF ~image.has_syms THEN << >>
    ELSE IF bfd_get_symtab_upper_bound(image) < 1 THEN << >>
    ELSE IF bfd_canonicalize_symtab(image) < 1 THEN << >>
    ELSE LET bs == image.symtab
             cand == Candidates(bs, image.sections, 1)
             sorted == stable_sort(cand)
             sized == FillSizes(sorted, bs, image.sections, nrs)
             unique == Dedup(sized, 2)
         IN  RemoveExcluded(unique, 1, bs, excl)

\* op_bfd.cpp:160-161: bfd_syms is allocated and filled once the image is known
\* to have room for symbols
CanonicalSyms(image) ==
    IF image.has_syms /\ bfd_get_symtab_upper_bound(image) >= 1 THEN image.symtab
    ELSE << >>

\* ------------------------------------------------------------- the constructor
\* what sect->filepos yields when bfd_get_section_by_name() returned NULL
\* (op_bfd.cpp:80-81 has no test): the process dies, or some value is read
NullSectionRead == {[dies |-> TRUE, value |-> 0]}
    \cup {[dies |-> FALSE, value |-> v] : v \in {0, 1, U32 - 1}}

\* bfd_get_section_by_name(ibfd, ".text") found a section
HasText(image) == ".text" \in DOMAIN image.sections

Stopped(how, why, nrs) ==
    [pc |-> how, err |-> why, nr_samples |-> nrs, sect_offset |-> 0,
     bfd_syms |-> << >>, syms |-> << >>]

\* op_bfd.cpp:59-87, after nr_samples is known
open_bfd_image(image, is_kernel, nrs, excl, ub) ==
    IF ~image.openable THEN Stopped("exit", "bfd_openr failed", nrs)
    ELSE IF ~image.format_ok THEN Stopped("exit", "BFD format failure", nrs)
    ELSE IF is_kernel /\ ~HasText(image) /\ ub.dies
         THEN Stopped("crash", "null section", nrs)
    ELSE [pc |-> "mtime", err |-> "none", nr_samples |-> nrs,
          sect_offset |-> IF ~is_kernel THEN 0
                          ELSE IF HasText(image)
                               THEN image.sections[".text"].filepos % U32
                          ELSE ub.value,
          bfd_syms |-> CanonicalSyms(image),
          syms |-> get_symbols(image, nrs, excl)]

\* op_bfd.cpp:17-30
CtorResult(image, header, excl, ub) ==
    IF ~image.named THEN Stopped("exit", "empty image filename", 0)
    ELSE open_bfd_image(image, header.is_kernel, image.fsize % U32, excl, ub)

\* op_bfd.cpp:17-30: the constructor up to the return of open_bfd_image()
CtorOpen ==
    /\ pc = "new"
    /\ \E ub \in NullSectionRead :
         LET r == CtorResult(img, hdr, excluded, ub)
         IN  /\ pc' = r.pc
             /\ err' = r.err
             /\ nr_samples' = r.nr_samples
             /\ sect_offset' = r.sect_offset
             /\ bfd_syms' = r.bfd_syms
             /\ syms' = r.syms
    /\ UNCHANGED <<world, warned, samples_sect_offset, range, found, ln>>

\* op_bfd.cpp:32-37: a differing mtime is reported and nothing else
CtorMtime ==
    /\ pc = "mtime"
    /\ warned' = (img.mtime # hdr.mtime)
    /\ pc' = "handback"
    /\ UNCHANGED <<world, err, nr_samples, sect_offset, bfd_syms, syms,
                   samples_sect_offset, range, found, ln>>

\* the offset handed back as it was before the image was opened
CtorHandbackInitial ==
    /\ pc = "handback"
    /\ samples_sect_offset' = 0
    /\ pc' = "ready"
    /\ UNCHANGED <<img, hdr, excluded, err, nr_samples, sect_offset, bfd_syms, syms,
                   warned, range, found, ln>>

\* op_bfd.cpp:39: samples.set_sect_offset(sect_offset)
CtorHandback ==
    /\ pc = "handback"
    /\ samples_sect_offset' = sect_offset
    /\ pc' = "ready"
    /\ UNCHANGED <<world, err, nr_samples, sect_offset, bfd_syms, syms, warned,
                   range, found, ln>>

\* ------------------------------------------------------------- the queries
\* op_bfd.cpp:394-402: u32 start and end of syms[sym_idx]
RangeStart(sym_idx) == FileStart(bfd_syms[syms[sym_idx].symbol], img.sections)

RangeEnd(sym_idx) == (RangeStart(sym_idx) + syms[sym_idx].size) % U32

\* op_bfd.cpp:405 and 410: nr_samples + sect_offset
RangeLimit == (nr_samples + sect_offset) % U32

\* the range tests with the end tested like the start
RangeOutcomeEndExclusive(start, end, limit) ==
    IF start >= limit THEN "start out of range"
    ELSE IF end >= limit THEN "end out of range"
    ELSE IF start > end THEN "start overflow or end underflow"
    ELSE "ok"

\* op_bfd.cpp:405-418: which of the three tests stops the process
RangeOutcome(start, end, limit) ==
    IF start >= limit THEN "start out of range"
    ELSE IF end > limit THEN "end out of range"
    ELSE IF start > end THEN "start overflow or end underflow"
    ELSE "ok"

\* op_bfd.cpp:391-419
get_symbol_range(sym_idx) ==
    /\ pc = "ready"
    /\ LET start == RangeStart(sym_idx)
           end == RangeEnd(sym_idx)
           outcome == RangeOutcome(start, end, RangeLimit)
       IN  /\ range' = [called |-> TRUE, idx |-> sym_idx, start |-> start,
                         end |-> end, outcome |-> outcome]
           /\ pc' = IF outcome = "ok" THEN pc ELSE "exit"
           /\ err' = IF outcome = "ok" THEN err ELSE outcome
    /\ UNCHANGED <<world, nr_samples, sect_offset, bfd_syms, syms, warned,
                   samples_sect_offset, found, ln>>

\* op_bfd.cpp:430-435: the first index whose name is equal, from position i
RECURSIVE FirstNamed(_, _)
FirstNamed(symbol, i) ==
    IF i > Len(syms) THEN nil_symbol_index
    ELSE IF bfd_syms[syms[i].symbol].name = symbol THEN i
    ELSE FirstNamed(symbol, i + 1)

\* op_bfd.cpp:428-436
symbol_index(symbol) ==
    /\ pc = "ready"
    /\ found' = [called |-> TRUE, name |-> symbol, index |-> FirstNamed(symbol, 1)]
    /\ UNCHANGED <<world, pc, err, nr_samples, sect_offset, bfd_syms, syms, warned,
                   samples_sect_offset, range, ln>>

\* ------------------------------------------------------------- get_linenr
\* op_bfd.cpp:218-226: u32 num less the section's filepos and the symbol's value
sym_offset(sym_index, num) ==
    LET sym == bfd_syms[syms[sym_index].symbol]
    IN  (num - img.sections[sym.section].filepos - sym.value) % U32

SymSection(sym_idx) == img.sections[bfd_syms[syms[sym_idx].symbol].section]

SymName(sym_idx) == bfd_syms[syms[sym_idx].symbol].name

\* what bfd_find_nearest_line() can answer for one address: found or not, and
\* what it leaves in filename, functionname and linenr.  A found line may come
\* without a file name or without a function name; when nothing is found the
\* three are cleared or are leftovers of the search.
LineAnswers(name) ==
    {[ret |-> TRUE, filename |-> f, functionname |-> fn, linenr |-> l] :
        f \in {NullPtr, Str(<<"a", ".", "c">>)},
        fn \in {NullPtr, Str(name), Str(<<"o", "t", "h", "e", "r">>)},
        l \in {0, 7}}
    \cup {NoAnswer,
          [ret |-> FALSE, filename |-> Str(<<"a", ".", "c">>),
           functionname |-> Str(name), linenr |-> 7]}

\* strcmp(functionname, name) != 0
NameDiffers(fn, name) == fn.str # name

\* the first lookup taken without the test of the function name
FirstFixupNoNameTest(a, name) ==
    LET failed == a.filename.null \/ ~a.ret
    IN  [ret |-> IF failed THEN FALSE ELSE a.ret,
         filename |-> IF failed THEN [null |-> FALSE, str |-> << >>] ELSE a.filename,
         functionname |-> a.functionname,
         linenr |-> IF failed THEN 0 ELSE a.linenr]

\* op_bfd.cpp:260-271: what the first lookup leaves in ret, filename and linenr
FirstFixup(a, name) ==
    LET failed == a.filename.null \/ ~a.ret
        ret1 == IF failed THEN FALSE ELSE a.ret
        ret2 == IF ret1 /\ ~a.functionname.null /\ NameDiffers(a.functionname, name)
                THEN FALSE ELSE ret1
    IN  [ret |-> ret2,
         filename |-> IF failed THEN Str(<< >>) ELSE a.filename,
         functionname |-> a.functionname,
         linenr |-> IF failed THEN 0 ELSE a.linenr]

\* a window that is not clipped to the section
MaxSearchNoClip(addr, section_size) == 16

\* op_bfd.cpp:293-296
MaxSearch(addr, section_size) ==
    IF addr + max_search_init > section_size THEN section_size - addr
    ELSE max_search_init

\* op_bfd.cpp:252: bfd_vma pc = sym_offset(sym_idx, offset) + value; the sum wraps
\* where a bfd_vma is as wide as a u32 and does not where it is wider
PcOf(sym_idx, offset) ==
    LET sum == sym_offset(sym_idx, offset) + bfd_syms[syms[sym_idx].symbol].value
    IN  {sum % U32, sum}

\* op_bfd.cpp:238-285: the call up to the test of linenr, with the provider's
\* answer for the address
LinenrStart(sym_idx, offset) ==
    /\ pc = "ready"
    /\ ln.phase = "idle"
    /\ \E addr \in PcOf(sym_idx, offset) :
       LET section == SymSection(sym_idx)
           call == [NoLine EXCEPT !.sym_idx = sym_idx, !.offset = offset, !.pc = addr]
       IN  IF ~section.alloc \/ addr >= section.size
           THEN ln' = [call EXCEPT !.phase = "done", !.returned = FALSE]
           ELSE \E a \in LineAnswers(SymName(sym_idx)) :
                  LET r == FirstFixup(a, SymName(sym_idx))
                      got == [call EXCEPT !.ret = r.ret, !.filename = r.filename,
                                          !.functionname = r.functionname,
                                          !.linenr = r.linenr, !.first = a,
                                          !.last_ret = a.ret, !.lookups = 1]
                  IN  ln' = IF r.linenr = 0
                            THEN [got EXCEPT !.phase = "scan", !.i = 1,
                                             !.max_search = MaxSearch(addr, section.size)]
                            ELSE [got EXCEPT !.phase = "done", !.returned = r.ret]
    /\ UNCHANGED <<world, pc, err, nr_samples, sect_offset, bfd_syms, syms, warned,
                   samples_sect_offset, range, found>>

\* what strcmp() of a NULL functionname can do (op_bfd.cpp:306 has no test)
NullCompare == {"dies", "equal", "differs"}

\* op_bfd.cpp:305-307: the probe's answer is taken
ProbeWins(a, name, ub) ==
    /\ a.ret
    /\ a.linenr # 0
    /\ IF a.functionname.null THEN ub = "equal" ELSE ~NameDiffers(a.functionname, name)

\* op_bfd.cpp:306: the comparison is reached with a NULL functionname and the
\* process dies in it
ProbeDies(a, ub) == a.ret /\ a.linenr # 0 /\ a.functionname.null /\ ub = "dies"

\* op_bfd.cpp:298-310: one pass of the forward scan
LinenrProbe ==
    /\ pc = "ready"
    /\ ln.phase = "scan"
    /\ ln.i < ln.max_search
    /\ \E a \in LineAnswers(SymName(ln.sym_idx)), ub \in NullCompare :
         LET probed == [ln EXCEPT !.filename = a.filename,
                                  !.functionname = a.functionname,
                                  !.linenr = a.linenr, !.last_ret = a.ret,
                                  !.lookups = @ + 1, !.nprobes = @ + 1,
                                  !.last_probe = ln.pc + ln.i]
         IN  ln' = IF ProbeDies(a, ub) THEN [probed EXCEPT !.phase = "crash"]
                   ELSE IF ProbeWins(a, SymName(ln.sym_idx), ub)
                        THEN [probed EXCEPT !.phase = "done", !.returned = a.ret,
                                            !.accepted_at = ln.pc + ln.i]
                   ELSE [probed EXCEPT !.i = @ + 1]
    /\ pc' = IF ln'.phase = "crash" THEN "crash" ELSE pc
    /\ UNCHANGED <<world, err, nr_samples, sect_offset, bfd_syms, syms, warned,
                   samples_sect_offset, range, found>>

\* op_bfd.cpp:319-323: the window is used up, the first call is made again and
\* the outer ret is returned
LinenrReissue ==
    /\ pc = "ready"
    /\ ln.phase = "scan"
    /\ ~(ln.i < ln.max_search)
    /\ ln' = [ln EXCEPT !.filename = ln.first.filename,
                        !.functionname = ln.first.functionname,
                        !.linenr = ln.first.linenr,
                        !.last_ret = ln.first.ret,
                        !.lookups = @ + 1,
                        !.phase = "done", !.returned = ln.ret]
    /\ UNCHANGED <<world, pc, err, nr_samples, sect_offset, bfd_syms, syms, warned,
                   samples_sect_offset, range, found>>

\* the names a caller asks for
QueryNames == {N_f, N_g, N_h, N_k, N_init, N_dotLfoo, N_init2}

\* ------------------------------------------------------------- specifications
Fresh ==
    /\ pc = "new"
    /\ err = "none"
    /\ nr_samples = 0
    /\ sect_offset = 0
    /\ bfd_syms = << >>
    /\ syms = << >>
    /\ warned = FALSE
    /\ samples_sect_offset = -1
    /\ range = NoRange
    /\ found = NoFound
    /\ ln = NoLine

\* images that differ in where their symbols lie; a file of size 4 holds every
\* section whole, a file of size 2 is cut short
GeomImages ==
    {Image(TRUE, TRUE, TRUE, fsz, 1, TRUE, st, lay) :
        fsz \in {2, 4}, st \in GeomSymtabs,
        lay \in {LayoutInverted, LayoutOrdered, LayoutModule}}

Init ==
    /\ img \in GeomImages
    /\ hdr \in {Header(k, 1) : k \in BOOLEAN}
    /\ excluded \in {{}, {N_f}, {N_g}}
    /\ Fresh

Next ==
    \/ CtorOpen
    \/ CtorMtime
    \/ CtorHandback
    \/ \E i \in 1..Len(syms) : get_symbol_range(i)

Spec == Init /\ [][Next]_vars

\* images that differ in the names and section flags of their symbols, and
\* images whose symbols share names and addresses
NameImages ==
    {Image(TRUE, TRUE, TRUE, 10, 1, TRUE, st, LayoutData) :
        st \in FilterSymtabs \cup DupSymtabs}

InitNames ==
    /\ img \in NameImages
    /\ hdr = Header(FALSE, 1)
    /\ excluded \in {{}, {N_f}}
    /\ Fresh

NextNames ==
    \/ CtorOpen
    \/ CtorMtime
    \/ CtorHandback
    \/ \E n \in QueryNames : symbol_index(n)

SpecNames == InitNames /\ [][NextNames]_vars

\* images that differ in what the constructor tests
OpenImages ==
    UNION {{Image(nm, op, fmt, 10, mt, hs, st, lay) :
               nm \in BOOLEAN, op \in BOOLEAN, fmt \in BOOLEAN, mt \in {1, 2},
               hs \in BOOLEAN,
               st \in SeqsUpTo({RawSym(n, TRUE, sec, v) :
                                   n \in {N_f, N_g}, sec \in DOMAIN lay, v \in {0, 1}},
                               MaxOpenSyms)} :
           lay \in {LayoutData, LayoutNoText, LayoutOrdered}}

InitOpen ==
    /\ img \in OpenImages
    /\ hdr \in {Header(k, 1) : k \in BOOLEAN}
    /\ excluded = {}
    /\ Fresh

NextOpen ==
    \/ CtorOpen
    \/ CtorMtime
    \/ CtorHandback

SpecOpen == InitOpen /\ [][NextOpen]_vars

\* an image with a symbol in each of a long, a short and an unallocated section
LineSymtab ==
    <<RawSym(N_f, TRUE, ".text", 1), RawSym(N_g, TRUE, ".init", 0),
      RawSym(N_h, TRUE, ".note", 0)>>

InitLine ==
    /\ img = Image(TRUE, TRUE, TRUE, 31, 1, TRUE, LineSymtab, LayoutLine)
    /\ hdr = Header(FALSE, 1)
    /\ excluded = {}
    /\ Fresh

NextLine ==
    \/ CtorOpen
    \/ CtorMtime
    \/ CtorHandback
    \/ \E i \in 1..Len(syms), offset \in 0..(U32 - 1) : LinenrStart(i, offset)
    \/ LinenrProbe
    \/ LinenrReissue

SpecLine == InitLine /\ [][NextLine]_vars

\* ------------------------------------------------------------- the claims
\* get_symbols() has returned: the table is the one the queries will see
Built == pc \in {"mtime", "handback", "ready"}

\* the raw symbol a table entry points to
Raw(e) == bfd_syms[e.symbol]

\* section vma + value of the raw symbol at position i of bfd_syms
RawVma(i) == bfd_syms[i].value + img.sections[bfd_syms[i].section].vma

\* C1: in every built table each entry's span abuts its successor's:
\* start(i) + size(i) = start(i+1), start being section file offset + symbol
\* value, and the last entry's span ends at the file size.
C1_Contiguous ==
    Built =>
      \A i \in 1..Len(syms) :
        (RangeStart(i) + syms[i].size) % U32 =
            IF i < Len(syms) THEN RangeStart(i + 1) ELSE nr_samples

\* C2: every built table is strictly ascending by virtual address, the address
\* of an entry being its symbol's section vma + value; no two entries share one.
C2_StrictlyAscending ==
    Built =>
      /\ \A i \in 1..Len(syms) : syms[i].vma = RawVma(syms[i].symbol)
      /\ \A i \in 1..(Len(syms) - 1) : syms[i].vma < syms[i + 1].vma

\* C2's case: three candidates on one address, of which the table keeps one
C2_Witness ==
    /\ Built
    /\ Len(bfd_syms) = 3
    /\ RawVma(1) = RawVma(2) /\ RawVma(2) = RawVma(3)
    /\ excluded = {}
    /\ Len(syms) = 1

\* C3 as stated: get_symbol_range() fails exactly when start or end is outside
\* [0, limit), the limit being exclusive for both, and succeeds otherwise.
C3_Original ==
    range.called =>
      ((range.outcome # "ok") <=> ~(range.start < RangeLimit /\ range.end < RangeLimit))

\* C3 as amended: get_symbol_range() fails with an out-of-range error exactly
\* when start >= limit or end > limit (the limit is exclusive for start and
\* inclusive for end); otherwise it succeeds, unless start > end, which fails
\* with the overflow error.
C3_RangeChecks ==
    range.called =>
      /\ range.start = RangeStart(range.idx)
      /\ range.end = (range.start + syms[range.idx].size) % U32
      /\ (range.outcome \in {"start out of range", "end out of range"})
            <=> (range.start >= RangeLimit \/ range.end > RangeLimit)
      /\ (range.outcome = "start overflow or end underflow")
            <=> (range.start < RangeLimit /\ range.end <= RangeLimit
                 /\ range.start > range.end)
      /\ (range.outcome = "ok")
            <=> (range.start < RangeLimit /\ range.end <= RangeLimit
                 /\ range.start <= range.end)
      /\ (range.outcome = "ok") <=> (pc = "ready")

\* C3's case: a span that ends exactly at the limit is accepted
C3_Witness ==
    /\ range.called
    /\ range.end = RangeLimit
    /\ range.start = RangeLimit - 1
    /\ range.outcome = "ok"

\* the file holds every section whole, so that every symbol lies inside it
WholeImage ==
    \A s \in DOMAIN img.sections :
        img.sections[s].filepos + img.sections[s].size <= img.fsize

\* C10: for every entry of every built table the span get_symbol_range()
\* computes has start <= end and a size that did not wrap around, so that the
\* start > end branch is never taken.  Stated for the images that hold every
\* section whole, the sections in any order.
C10_NoWrap ==
    range.called /\ WholeImage =>
      /\ range.start <= range.end
      /\ range.start + syms[range.idx].size < U32
      /\ range.outcome # "start overflow or end underflow"

\* position i of bfd_syms passes the filter, tested here on the symbol itself
BeginsDotL(name) == Len(name) >= 2 /\ SubSeq(name, 1, 2) = <<".", "L">>

Passes(i) ==
    /\ img.sections[bfd_syms[i].section].code
    /\ bfd_syms[i].named
    /\ bfd_syms[i].name # << >>
    /\ ~BeginsDotL(bfd_syms[i].name)
    /\ bfd_syms[i].name \notin {N_gcc2, N_init}

InTable(i) == \E k \in DOMAIN syms : syms[k].symbol = i

Least(S) == CHOOSE x \in S : \A y \in S : x <= y

\* the first position in extraction order that passes the filter and has the
\* virtual address of position i
FirstAt(i) == Least({j \in DOMAIN bfd_syms : Passes(j) /\ RawVma(j) = RawVma(i)})

\* symbol_index() answered with the lowest index that carries the name, or with
\* not-found when no entry of the table carries it
IndexIsFirstNamed ==
    found.called =>
      LET named == {k \in DOMAIN syms : Raw(syms[k]).name = found.name}
      IN  found.index = IF named = {} THEN nil_symbol_index ELSE Least(named)

\* C5 as stated: of the candidates that share a virtual address exactly the
\* first in extraction order is in the built table; symbol_index() finds the
\* lowest index of a name, and nothing for a name only dropped symbols carry.
C5_Original ==
    Built =>
      /\ \A i \in DOMAIN bfd_syms : Passes(i) => (InTable(i) <=> i = FirstAt(i))
      /\ IndexIsFirstNamed

\* C5 as amended: of the candidates that share a virtual address only the first
\* in extraction order can be in the built table, and it is there unless its
\* name is on the exclusion list; symbol_index() as stated.
C5_FirstSurvives ==
    Built =>
      /\ \A i \in DOMAIN bfd_syms :
           Passes(i) => (InTable(i) <=> (i = FirstAt(i) /\ bfd_syms[i].name \notin excluded))
      /\ IndexIsFirstNamed

\* C5's case: a name that only a later symbol of a shared address carries is
\* not found
C5_Witness ==
    /\ pc = "ready"
    /\ excluded = {}
    /\ found.called
    /\ found.index = nil_symbol_index
    /\ \E i \in DOMAIN bfd_syms :
         Passes(i) /\ bfd_syms[i].name = found.name /\ FirstAt(i) < i

\* C7: no entry of a built table is in a section that is not code, is unnamed
\* or has an empty name, a name that begins with ".L", or the name
\* "gcc2_compiled." or "_init"; and a raw symbol that fails none of these tests
\* is a candidate wherever it stands: it is in the table unless it is excluded
\* by name or an earlier candidate has its address.
C7_Filter ==
    Built =>
      /\ \A k \in DOMAIN syms : Passes(syms[k].symbol)
      /\ \A i \in DOMAIN bfd_syms :
           Passes(i) =>
             \/ InTable(i)
             \/ bfd_syms[i].name \in excluded
             \/ \E j \in 1..(i - 1) : Passes(j) /\ RawVma(j) = RawVma(i)

\* C7's case: a .L label is dropped and a name that only resembles a boring
\* one is kept
C7_Witness ==
    /\ Built
    /\ Len(bfd_syms) = 2
    /\ bfd_syms[1].name = N_dotLfoo /\ bfd_syms[1].section = ".text"
    /\ bfd_syms[2].name = N_init2 /\ bfd_syms[2].section = ".text"
    /\ Len(syms) = 1
    /\ syms[1].symbol = 2

\* the image gets as far as the lookup of the .text section
ReachesSectionLookup == img.named /\ img.openable /\ img.format_ok

\* C8: opening a kernel image that has no .text section ends in the fatal
\* missing-section error: no section adjustment, no table, no other outcome.
C8_MissingSection ==
    (pc # "new" /\ hdr.is_kernel /\ ~HasText(img) /\ ReachesSectionLookup) =>
      /\ pc = "exit"
      /\ err = "missing .text section"
      /\ syms = << >>
      /\ samples_sect_offset = -1

\* C9: for an image that opened, the adjustment handed to the sample file
\* reader is the .text section's file offset for a kernel image (one that has
\* the section) and 0 otherwise; the table is the one get_symbols() built; and
\* a differing modification time changes neither and stops nothing, it only
\* sets off the warning.
C9_Adjustment ==
    /\ (pc = "ready" /\ (hdr.is_kernel => HasText(img))) =>
         /\ samples_sect_offset =
              IF hdr.is_kernel THEN img.sections[".text"].filepos ELSE 0
         /\ syms = get_symbols(img, img.fsize % U32, excluded)
         /\ warned = (img.mtime # hdr.mtime)
    /\ (pc = "exit") => ~ReachesSectionLookup

\* C9's case: a kernel image whose modification time differs
C9_Witness ==
    /\ pc = "ready"
    /\ hdr.is_kernel
    /\ HasText(img)
    /\ img.mtime # hdr.mtime
    /\ warned
    /\ samples_sect_offset > 0
    /\ Len(syms) > 0

LineDone == ln.phase = "done"

\* C4 as stated: get_linenr() returns true only if the function name reported
\* for the accepted address is the symbol's name; a differing or absent name is
\* rejected.
C4_Original ==
    (LineDone /\ ln.returned) =>
      (~ln.functionname.null /\ ln.functionname.str = SymName(ln.sym_idx))

\* C4 as amended: get_linenr() returns true only if the function name reported
\* for the accepted address is absent or is the symbol's name; a lookup whose
\* function name is present and differs is rejected, also when its line number
\* is not zero.
C4_NameGuard ==
    /\ (LineDone /\ ln.returned) =>
         (ln.functionname.null \/ ln.functionname.str = SymName(ln.sym_idx))
    /\ (LineDone /\ ln.lookups = 1 /\ ln.first.ret /\ ~ln.first.functionname.null
          /\ ln.first.functionname.str # SymName(ln.sym_idx)) => ~ln.returned

\* C4's case: a found line 7 of another function is rejected
C4_Witness ==
    /\ LineDone
    /\ ln.lookups = 1
    /\ ln.first.ret
    /\ ~ln.first.filename.null
    /\ ln.first.linenr = 7
    /\ ~ln.first.functionname.null
    /\ ln.first.functionname.str # SymName(ln.sym_idx)
    /\ ~ln.returned

\* the scan has probed: never more than 16 times, always after the original
\* address and below the section's size, and only when the first lookup left
\* line number 0
ScanBounded ==
    /\ ln.nprobes <= 16
    /\ ln.nprobes > 0 =>
         /\ ln.pc < ln.last_probe
         /\ ln.last_probe < SymSection(ln.sym_idx).size
         /\ (ln.first.filename.null \/ ~ln.first.ret \/ ln.first.linenr = 0)

\* a step of the scan: probes ascend, a probe that finds a line that is not 0 of
\* the symbol's function ends the call with true, and after it no lookup is made
ScanStep ==
    /\ ln'.nprobes # ln.nprobes =>
         /\ ln'.nprobes = ln.nprobes + 1
         /\ ln.nprobes > 0 => ln'.last_probe > ln.last_probe
         /\ (ln'.last_ret /\ ln'.linenr # 0 /\ ~ln'.functionname.null
               /\ ln'.functionname.str = SymName(ln.sym_idx))
              => (ln'.phase = "done" /\ ln'.returned /\ ln'.accepted_at = ln'.last_probe)
    /\ ln.accepted_at # 0 => ln'.lookups = ln.lookups

\* C6: when the first lookup leaves line number 0 the forward scan makes at
\* most 16 probes, each after the original address and below the section's
\* size, in ascending order, and returns at the first probe that finds a line
\* number that is not 0 and the symbol's function name, with no lookup after it.
C6_ForwardScan == [](ScanBounded) /\ [][ScanStep]_vars

\* C6's case: the scan is accepted at its last probe of a full window
C6_Witness ==
    /\ LineDone
    /\ ln.returned
    /\ ln.nprobes = 15
    /\ ln.accepted_at = ln.pc + 15

\* no file name is handed back: the pointer is NULL or the string is empty
NoFilename(p) == p.null \/ p.str = << >>

\* the call ended after the scan used up its window and the first call was
\* made again
ScanExhausted == LineDone /\ ln.lookups = ln.nprobes + 2

\* C11: whenever get_linenr() returns false (the call was rejected at once, the
\* first lookup failed, the function name differed, or the forward scan was
\* used up) the file name handed back is empty and the line number is 0; after
\* a scan that was used up the values handed back are those of the first
\* lookup.
C11_UnavailableIsEmpty ==
    /\ (LineDone /\ ~ln.returned) => (NoFilename(ln.filename) /\ ln.linenr = 0)
    /\ (ScanExhausted /\ ~ln.returned) =>
         (ln.filename = ln.first.filename /\ ln.linenr = ln.first.linenr)

=============================================================================
